---- MODULE Spec2Model ----
(***************************************************************************)
(* State/interaction layer of the AI workplace assistant front-end:        *)
(* the API client (services/api.ts), the chat session hook (useChat) and   *)
(* the way a React component sees the hook's state.                        *)
(*                                                                         *)
(* React state set with a functional updater (setMessages(prev => ...))    *)
(* or with an absolute value is modelled as updated in place: the updates  *)
(* are queued and applied in order, so the committed value is the same.    *)
(* What a callback READS from its closure (isLoading, conversationId) is   *)
(* the value captured at the last render, kept in `rendered`.              *)
(*                                                                         *)
(* Spec and LiveSpec run the chat session on its own. AppSpec runs the     *)
(* conversation registry (useConversations) and the handlers of App.tsx    *)
(* that call it; a handler reads the state of the render the user sees,    *)
(* taken to be the current one, and keeps what it closed over across its   *)
(* await. SelectionSpec runs the selection in the list of conversations    *)
(* (created, clicked, auto-selected, deleted), ExtractSpec the message     *)
(* composer. The effect of App.tsx that loads the active conversation is   *)
(* part of none of them.                                                   *)
(***************************************************************************)
EXTENDS Integers, Sequences, FiniteSets, TLC

\* ------------------------------------------------------------------ bounds
MaxRequests == 2  \* requests the session hands to the API client (sends and loads)
MaxClock == 0     \* readings of the clock range over 0..MaxClock
MaxCalls == 2     \* calls the App's handlers make on the conversation registry
MaxText == 4      \* tokens of a message typed for context extraction

\* ------------------------------------------------------------ input sets
\* Message text is a sequence of characters; " " is the whitespace character.
Whitespace == {" "}
ConvIds == {"c1", "c2"}
\* the conversationId prop a re-render can hand to the hook
ConversationProps == {"c1"}
\* the context of a ChatRequest; present = FALSE is undefined, hasCode says
\* whether language and codeSnippet are set
NoContext == [errorMessage |-> <<>>, language |-> <<>>, codeSnippet |-> <<>>,
              hasCode |-> FALSE, present |-> FALSE]
\* the calls of sendMessage(content, category, context) the model makes
SendInputs ==
  { [content |-> <<>>, category |-> "general", context |-> NoContext],
    [content |-> <<" ">>, category |-> "bug-fix", context |-> NoContext],
    [content |-> <<" ", "a">>, category |-> "bug-fix",
     context |-> [NoContext EXCEPT !.errorMessage = <<" ", "a">>, !.present = TRUE]] }

UndefinedCode == "<undefined>"
Undefined == <<"<undefined>">>
EmptyString == <<>>

\* -------------------------------------------------- String.prototype.trim
RECURSIVE TrimStart(_)
TrimStart(s) ==
  IF s = <<>> THEN <<>>
  ELSE IF Head(s) \in Whitespace THEN TrimStart(Tail(s)) ELSE s

RECURSIVE TrimEnd(_)
TrimEnd(s) ==
  IF s = <<>> THEN <<>>
  ELSE IF s[Len(s)] \in Whitespace THEN TrimEnd(SubSeq(s, 1, Len(s) - 1)) ELSE s

Trim(s) == TrimEnd(TrimStart(s))

\* !content.trim(): the empty string is falsy
IsBlank_AlwaysFalse(content) == FALSE
IsBlank(content) == Trim(content) = EmptyString

\* ---------------------------------------------------------- API client
\* What the transport hands back to ApiService.request: fetch rejects, or a
\* response with a status and a body that parses to JSON or does not.
NoBody == [tag |-> "invalid", message |-> Undefined, code |-> UndefinedCode,
           id |-> <<"", 0>>, content |-> <<>>, timestamp |-> <<"iso", 0>>,
           history |-> <<>>]
NullBody == [NoBody EXCEPT !.tag = "null"]
ErrorBody(m, c) == [NoBody EXCEPT !.tag = "obj", !.message = m, !.code = c]
ChatBody(id, ts) ==
  [NoBody EXCEPT !.tag = "obj", !.id = id, !.content = <<"reply">>,
                 !.timestamp = <<"iso", ts>>]
ArrayBody(h) == [NoBody EXCEPT !.tag = "array", !.history = h]

Rejected == [net |-> "reject", ok |-> FALSE, status |-> 0, statusText |-> "", body |-> NoBody]
NoWire == [Rejected EXCEPT !.net = "none"]
Response(ok, status, text, body) ==
  [net |-> "resp", ok |-> ok, status |-> status, statusText |-> text, body |-> body]

ErrorBodies ==
  { NoBody, NullBody,
    ErrorBody(<<"quota exceeded">>, "RATE_LIMIT"),
    ErrorBody(EmptyString, "NETWORK_ERROR") }

ErrorResponses == { Response(FALSE, 500, "Internal Server Error", b) : b \in ErrorBodies }

ChatWire ==
  {Rejected} \cup ErrorResponses
  \cup { Response(TRUE, 200, "OK", b) : b \in {NoBody, NullBody, ChatBody(<<"msg-", 1>>, 0)} }

\* class ApiError / any other thrown value
ApiError(message, code) == [classified |-> TRUE, message |-> message, code |-> code]
TypeError == [classified |-> FALSE, message |-> <<"TypeError">>, code |-> UndefinedCode]
NoError == [classified |-> FALSE, message |-> <<>>, code |-> UndefinedCode]

Return(v) == [ok |-> TRUE, value |-> v, error |-> NoError]
Throw(e) == [ok |-> FALSE, value |-> NoBody, error |-> e]

NetworkError ==
  ApiError(<<"Failed to connect to the AI service. Please check your connection.">>,
           "NETWORK_ERROR")

\* a || b on strings: undefined and "" are falsy
OrElse(a, b) == IF a \in {Undefined, EmptyString} THEN b ELSE a
OrElseCode(a, b) == IF a \in {UndefinedCode, ""} THEN b ELSE a

HttpMessage(w) == <<"HTTP ", ToString(w.status), ": ", w.statusText>>

\* ApiService.request: try { fetch; !ok -> throw ApiError; json } catch { ... }
Request(w) ==
  IF w.net = "reject" THEN Throw(NetworkError)
  ELSE IF ~w.ok THEN
    LET errorData == IF w.body.tag = "invalid" THEN ErrorBody(Undefined, UndefinedCode)
                     ELSE w.body
    IN  IF errorData.tag = "null"
        THEN Throw(NetworkError)   \* reading .message of null throws; not an ApiError
        ELSE Throw(ApiError(OrElse(errorData.message, HttpMessage(w)),
                            OrElseCode(errorData.code, "HTTP_ERROR")))
  ELSE IF w.body.tag = "invalid" THEN Throw(NetworkError)
  ELSE Return(w.body)

\* ApiService.sendMessage: { ...res, timestamp: res.timestamp }
ApiSendMessage(w) ==
  LET res == Request(w)
  IN  IF ~res.ok THEN res
      ELSE IF res.value.tag = "null" THEN Throw(TypeError)
      ELSE res

\* ApiService.getConversation: raw.map(m => ({...m, timestamp: m.timestamp ?
\* new Date(m.timestamp) : new Date()}))
UndefinedTimestamp == <<"iso", -1>>
NewDate(ts) == ts[2]
ParseDate(ts, clock) == IF ts = UndefinedTimestamp THEN clock ELSE NewDate(ts)

WireMessage(id, ts) ==
  [id |-> id, content |-> <<"old">>, sender |-> "ai", timestamp |-> ts,
   category |-> "general"]
Histories ==
  { <<>>,
    <<WireMessage(<<"msg-", 7>>, <<"iso", 0>>), WireMessage(<<"msg-", 8>>, UndefinedTimestamp)>> }

LoadWire ==
  {Rejected} \cup ErrorResponses
  \cup { Response(TRUE, 200, "OK", b) : b \in {NoBody, NullBody} \cup {ArrayBody(h) : h \in Histories} }

\* some message of the fetched history carries no timestamp, so new Date() is read
ReadsClock(history) == \E i \in 1..Len(history) : history[i].timestamp = UndefinedTimestamp

ApiGetConversation(w, clock) ==
  LET raw == Request(w)
  IN  IF ~raw.ok THEN raw
      ELSE IF raw.value.tag # "array" THEN Throw(TypeError)   \* raw.map is not a function
      ELSE Return([raw.value EXCEPT !.history =
                     [i \in 1..Len(raw.value.history) |->
                        [raw.value.history[i] EXCEPT
                           !.timestamp = ParseDate(raw.value.history[i].timestamp, clock)]]])

\* --------------------------------------------------------- chat session
VARIABLES
  messages,            \* useState<ChatMessage[]>([])
  isLoading,           \* useState(false)
  isConnected,         \* useState(true)
  abortControllerRef,  \* useRef<AbortController | null>(null); 0 is null
  aborted,             \* the controllers abort() was called on
  rendered,            \* what the callbacks of the last render captured
  inflight,            \* requests handed to the API client and not yet settled
  now,                 \* the last reading of the clock (Date.now(), new Date())
  nSends, nLoads,      \* calls made so far (bounded)
  last                 \* history variable: the handler step taken last, the request
                       \* it was about, what the transport answered, what was caught

\* ------------------------------------- conversation registry and App
VARIABLES
  conversations,         \* useConversations: useState<ConversationSummary[]>([])
  conversationsLoading,  \* useConversations: isLoading, useState(false)
  conversationsError,    \* useConversations: error, useState<string | null>(null)
  activeConversation,    \* App: useState<string | null>(null)
  searchQuery,           \* App: useState('')
  appError,              \* App: error, useState<string | null>(null)
  mounted,               \* the effect of useConversations has run
  calls,                 \* registry requests handed to the API client, not yet settled
  server,                \* the conversations the backend stores, oldest first
  nCalls,                \* calls made so far by the App's handlers (bounded)
  did                    \* history variable: the registry step taken last

chatVars == <<messages, isLoading, isConnected, abortControllerRef, aborted, rendered,
              inflight, now, nSends, nLoads, last>>
appVars == <<conversations, conversationsLoading, conversationsError, activeConversation,
             searchQuery, appError, mounted, calls, server, nCalls, did>>
vars == <<chatVars, appVars>>

NoController == 0

\* the signal ApiService.sendMessage hands to fetch: its options carry only
\* method and body, so the controller created by the hook reaches no request
FetchSignal(controller) == NoController

NoRequest ==
  [id |-> 0, kind |-> "none", message |-> <<>>, conversationId |-> "",
   category |-> "general", context |-> NoContext, signal |-> NoController,
   fromIdle |-> FALSE, interleaved |-> FALSE, superseded |-> FALSE,
   startLen |-> 0]

Sends(S) == {r \in S : r.kind = "send"}
Loads(S) == {r \in S : r.kind = "load"}

\* issued to the API client, neither settled nor cancelled
Outstanding(S) == {r \in S : r.signal = NoController \/ r.signal \notin aborted}

Step(op, req, wire, error, reported) ==
  [op |-> op, id |-> req.id, wire |-> wire, error |-> error, onError |-> reported]

\* history bookkeeping on the requests in flight when another operation runs
Touch(S) == {[r EXCEPT !.interleaved = TRUE] : r \in S}
Supersede(S) ==
  {[r EXCEPT !.interleaved = TRUE, !.superseded = (r.kind = "send")] : r \in S}

\* null of string | null: the active conversation, an error string
NullId == "<null>"
Null == <<"<null>">>

\* a ConversationSummary, by the fields the client reads
Summary(id, title, category) == [id |-> id, title |-> title, category |-> category]

\* what the backend stores when the App is opened
InitialServer == <<Summary("c1", <<"a">>, "general")>>

\* the queries typed into the search box, the messages typed into the input
SearchQueries == { <<>>, <<" ">>, <<"a">>, <<"b">> }
AppInputs ==
  { [content |-> <<" ">>, category |-> "general"],
    [content |-> <<"a">>, category |-> "bug-fix"] }

\* a call of the registry on the API client, with what the handler that made
\* it closed over (closure, active, fallback) and the history bookkeeping of
\* the search it clears (restores) or is cleared by (reloaded, full)
NoCall ==
  [id |-> 0, kind |-> "none", caller |-> "none", title |-> <<>>, category |-> "general",
   convId |-> NullId, query |-> <<>>, message |-> <<>>,
   closure |-> [isLoading |-> FALSE, conversationId |-> ""],
   active |-> NullId, fallback |-> NullId,
   created |-> NullId, restores |-> FALSE, cleared |-> FALSE, reloaded |-> FALSE,
   full |-> <<>>]

Did(op, call, err, data) ==
  [op |-> op, id |-> call.id, caller |-> call.caller, convId |-> call.convId,
   error |-> err, data |-> data]

Init ==
  /\ messages = <<>>
  /\ isLoading = FALSE
  /\ isConnected = TRUE
  /\ abortControllerRef = NoController
  /\ aborted = {}
  /\ rendered = [isLoading |-> FALSE, conversationId |-> ""]
  /\ inflight = {}
  /\ now = 0
  /\ nSends = 0
  /\ nLoads = 0
  /\ last = Step("init", NoRequest, NoWire, NoError, <<>>)
  /\ conversations = <<>>
  /\ conversationsLoading = FALSE
  /\ conversationsError = Null
  /\ activeConversation = NullId
  /\ searchQuery = <<>>
  /\ appError = Null
  /\ mounted = FALSE
  /\ calls = {}
  /\ server = InitialServer
  /\ nCalls = 0
  /\ did = Did("init", NoCall, NoError, <<>>)

UserMessage(content, category, clock) ==
  [id |-> <<"user-", clock>>, content |-> content, sender |-> "user",
   timestamp |-> clock, category |-> category]

AiMessage(response, category) ==
  [id |-> response.id, content |-> response.content, sender |-> "ai",
   timestamp |-> NewDate(response.timestamp), category |-> category]

ErrorMessage(error, clock) ==
  [id |-> <<"error-", clock>>,
   content |-> <<"Sorry, I encountered an error: ">> \o error.message
               \o <<". Please try again.">>,
   sender |-> "ai", timestamp |-> clock, category |-> "general"]

\* setMessages(prev => [...prev, m])
AppendMessage_Prepend(prev, m) == <<m>> \o prev
AppendMessage(prev, m) == Append(prev, m)

\* setIsConnected(error.code !== 'NETWORK_ERROR')
ConnectedAfter_Always(error) == TRUE
ConnectedAfter(error) == error.code # "NETWORK_ERROR"

\* setMessages(conversationMessages)
LoadedMessages_Merge(prev, history) == prev \o history
LoadedMessages(prev, history) == history

\* onError?.(error)
ReportError_Never(error) == <<>>
ReportError(error) == <<error>>

\* setMessages([])
ClearedMessages_Keep == messages
ClearedMessages == <<>>

\* Date.now() / new Date(): a reading no earlier than the one before
ClockReadings == now..MaxClock

\* if (!content.trim() || isLoading) return; isLoading is the one the callback
\* closed over
SendGuard(closure, content) == IsBlank(content) \/ closure.isLoading

\* sendMessage up to its await: the guard, the optimistic insert, the abort of
\* the previous controller and the request handed to the API client
SendMessageFrom(closure, content, category, context) ==
  IF SendGuard(closure, content)
  THEN /\ last' = Step("sendReturn", NoRequest, NoWire, NoError, <<>>)
       /\ UNCHANGED <<messages, isLoading, isConnected, abortControllerRef, aborted,
                      rendered, inflight, now, nSends, nLoads>>
  ELSE /\ nSends + nLoads < MaxRequests
       /\ LET controller == nSends + nLoads + 1
              req == [id |-> controller, kind |-> "send", message |-> content,
                      conversationId |-> closure.conversationId,
                      category |-> category, context |-> context,
                      signal |-> FetchSignal(controller),
                      fromIdle |-> (inflight = {} /\ ~isLoading),
                      interleaved |-> FALSE, superseded |-> FALSE,
                      startLen |-> Len(messages)]
          IN  /\ \E t \in ClockReadings :
                   /\ now' = t
                   /\ messages' = AppendMessage(messages, UserMessage(content, category, t))
              /\ isLoading' = TRUE
              /\ aborted' = IF abortControllerRef # NoController
                            THEN aborted \cup {abortControllerRef} ELSE aborted
              /\ abortControllerRef' = controller
              /\ inflight' = Supersede(inflight) \cup {req}
              /\ nSends' = nSends + 1
              /\ last' = Step("send", req, NoWire, NoError, <<>>)
       /\ UNCHANGED <<isConnected, rendered, nLoads>>

\* the sendMessage handed out by the last render
SendMessage(content, category, context) ==
  SendMessageFrom(rendered, content, category, context)

\* what the transport can answer to request r
Answers(r, wire) == IF r.signal # NoController /\ r.signal \in aborted THEN {Rejected} ELSE wire

\* finally { setIsLoading(false); abortControllerRef.current = null; }
FinallyLoading_Keep == isLoading
FinallyLoading == FALSE
FinallyController_Keep == abortControllerRef
FinallyController == NoController

\* sendMessage after its await: try / catch / finally
SendSettles(r, w) ==
  /\ r \in Sends(inflight)
  /\ w \in Answers(r, ChatWire)
  /\ LET res == ApiSendMessage(w)
     IN  /\ IF res.ok
            THEN /\ messages' = AppendMessage(messages, AiMessage(res.value, r.category))
                 /\ isConnected' = TRUE
                 /\ last' = Step("sendSettled", r, w, NoError, <<>>)
                 /\ UNCHANGED now
            ELSE IF res.error.classified
            THEN /\ isConnected' = ConnectedAfter(res.error)
                 /\ \E t \in ClockReadings :
                      /\ now' = t
                      /\ messages' = AppendMessage(messages, ErrorMessage(res.error, t))
                 /\ last' = Step("sendSettled", r, w, res.error, ReportError(res.error))
            ELSE /\ last' = Step("sendSettled", r, w, res.error, <<>>)
                 /\ UNCHANGED <<messages, isConnected, now>>
         /\ isLoading' = FinallyLoading
         /\ abortControllerRef' = FinallyController
         /\ inflight' = Touch(inflight \ {r})
  /\ UNCHANGED <<aborted, rendered, nSends, nLoads>>

\* loadConversation up to its await
LoadConversation(id) ==
  /\ nSends + nLoads < MaxRequests
  /\ LET req == [NoRequest EXCEPT !.id = nSends + nLoads + 1, !.kind = "load",
                                  !.conversationId = id,
                                  !.fromIdle = (inflight = {} /\ ~isLoading),
                                  !.startLen = Len(messages)]
     IN  /\ isLoading' = TRUE
         /\ inflight' = Touch(inflight) \cup {req}
         /\ nLoads' = nLoads + 1
         /\ last' = Step("load", req, NoWire, NoError, <<>>)
  /\ UNCHANGED <<messages, isConnected, abortControllerRef, aborted, rendered, now, nSends>>

\* loadConversation after its await
LoadSettles(r, w) ==
  /\ r \in Loads(inflight)
  /\ w \in LoadWire
  /\ \E t \in ClockReadings :
       LET res == ApiGetConversation(w, t)
       IN  /\ IF res.ok
              THEN /\ messages' = LoadedMessages(messages, res.value.history)
                   /\ isConnected' = TRUE
                   /\ now' = IF ReadsClock(w.body.history) THEN t ELSE now
                   /\ last' = Step("loadSettled", r, w, NoError, <<>>)
              ELSE IF res.error.classified
              THEN /\ isConnected' = ConnectedAfter(res.error)
                   /\ last' = Step("loadSettled", r, w, res.error, ReportError(res.error))
                   /\ UNCHANGED <<messages, now>>
              ELSE /\ last' = Step("loadSettled", r, w, res.error, <<>>)
                   /\ UNCHANGED <<messages, isConnected, now>>
           /\ isLoading' = FALSE
           /\ inflight' = Touch(inflight \ {r})
  /\ UNCHANGED <<abortControllerRef, aborted, rendered, nSends, nLoads>>

\* clearMessages: setMessages([])
ClearMessages ==
  /\ messages' = ClearedMessages
  /\ inflight' = Touch(inflight)
  /\ last' = Step("clear", NoRequest, NoWire, NoError, <<>>)
  /\ UNCHANGED <<isLoading, isConnected, abortControllerRef, aborted, rendered, now,
                 nSends, nLoads>>

\* a re-render: useCallback(..., [conversationId, isLoading, onError]) hands the
\* caller a sendMessage that closes over the committed isLoading and the
\* conversationId prop of this render
Render(id) ==
  /\ rendered' = [isLoading |-> isLoading, conversationId |-> id]
  /\ UNCHANGED <<messages, isLoading, isConnected, abortControllerRef, aborted, inflight,
                 now, nSends, nLoads, last>>

\* ------------------------------------------------------------ backend
\* The backend is reached only through its HTTP contract. It keeps the
\* conversations created and not deleted; the contract fixes no order for the
\* arrays it returns, so the list endpoint answers oldest first or newest first.
Reverse(s) == [i \in 1..Len(s) |-> s[Len(s) + 1 - i]]
Contains(t, s) == \E i \in 1..(Len(t) - Len(s) + 1) : SubSeq(t, i, i + Len(s) - 1) = s

BackendCreated(call) == Summary("n" \o ToString(call.id), call.title, call.category)
BackendCreate(stored, call) == Append(stored, BackendCreated(call))
BackendDelete(stored, id) == SelectSeq(stored, LAMBDA c : c.id # id)
BackendList(stored) == {stored, Reverse(stored)}
BackendSearch(stored, query) ==
  { SelectSeq(l, LAMBDA c : Contains(c.title, query)) : l \in BackendList(stored) }

SummaryBody(c) ==
  [tag |-> "obj", message |-> Undefined, code |-> UndefinedCode, summary |-> c]

\* the answers that make a registry call fail: fetch rejects, a 500 with or
\* without an error body, a 200 whose body is empty
Failures ==
  { Rejected,
    Response(FALSE, 500, "Internal Server Error", ErrorBody(<<"quota exceeded">>, "RATE_LIMIT")),
    Response(FALSE, 500, "Internal Server Error", NoBody),
    Response(TRUE, 200, "OK", NoBody) }
ListWire(stored) ==
  Failures \cup { Response(TRUE, 200, "OK", ArrayBody(l)) : l \in BackendList(stored) }
SearchWire(stored, query) ==
  Failures \cup { Response(TRUE, 200, "OK", ArrayBody(l)) : l \in BackendSearch(stored, query) }
CreateWire(call) ==
  Failures \cup { Response(TRUE, 200, "OK", SummaryBody(BackendCreated(call))) }
DeleteWire == Failures \cup { Response(TRUE, 200, "OK", NullBody) }
\* a request answered with a success status was carried out
Served(w) == w.net = "resp" /\ w.ok

\* ApiService.getConversations / createConversation / deleteConversation /
\* searchConversations: the result of request, as it is
ApiGetConversations(w) == Request(w)
ApiCreateConversation(w) == Request(w)
ApiDeleteConversation(w) == Request(w)
ApiSearchConversations(w) == Request(w)

\* ------------------------------------------------ conversation registry
\* setConversations(data)
LoadedConversations_Merge(prev, data) == data \o prev
LoadedConversations(prev, data) == data

\* setConversations(prev => [newConversation, ...prev])
PrependConversation_Append(prev, c) == Append(prev, c)
PrependConversation(prev, c) == <<c>> \o prev

\* setConversations(prev => prev.filter(conv => conv.id !== id))
RemoveConversation_First(prev, id) == IF prev = <<>> THEN prev ELSE Tail(prev)
RemoveConversation(prev, id) == SelectSeq(prev, LAMBDA conv : conv.id # id)

\* catch (err): setError(err.message) for an ApiError
ErrorString_Generic(err) == <<"Failed to load conversations">>
ErrorString(err) == err.message
Caught(prev, err) == IF err.classified THEN ErrorString(err) ELSE prev

\* loadConversations up to its await
LoadConversations(call) ==
  /\ conversationsLoading' = TRUE
  /\ conversationsError' = Null
  /\ calls' = {[c EXCEPT !.cleared = (c.kind = "search" \/ c.cleared)] : c \in calls}
              \cup {call}

\* useCallback(async () => {...}, []): every render hands out the
\* loadConversations of the first render
LoadConversationsChanged_EveryRender == TRUE
LoadConversationsChanged == FALSE

\* the effect runs after the first render, and after a render whose
\* loadConversations is not the one it ran with
EffectDue == ~mounted \/ LoadConversationsChanged

\* useEffect(() => { loadConversations(); }, [loadConversations])
Mount ==
  /\ EffectDue
  /\ mounted' = TRUE
  /\ LoadConversations([NoCall EXCEPT !.kind = "list", !.caller = "useEffect"])
  /\ did' = Did("mount", NoCall, NoError, <<>>)
  /\ UNCHANGED <<conversations, activeConversation, searchQuery, appError, server, nCalls>>
  /\ UNCHANGED chatVars

\* loadConversations after its await
ListSettles(r, w) ==
  /\ r \in calls /\ r.kind = "list"
  /\ LET res == ApiGetConversations(w)
     IN  IF res.ok
         THEN /\ conversations' = LoadedConversations(conversations, res.value.history)
              /\ calls' = {[c EXCEPT !.reloaded = (c.reloaded \/ (r.restores /\ c.cleared)),
                                     !.full = IF r.restores /\ c.cleared
                                              THEN w.body.history ELSE c.full] :
                           c \in calls \ {r}}
              /\ did' = Did("listSettled", r, NoError, w.body.history)
              /\ UNCHANGED conversationsError
         ELSE /\ conversationsError' =
                   IF res.error.classified THEN ErrorString(res.error)
                   ELSE <<"Failed to load conversations">>
              /\ calls' = calls \ {r}
              /\ did' = Did("listSettled", r, res.error, <<>>)
              /\ UNCHANGED conversations
  /\ conversationsLoading' = FALSE
  /\ UNCHANGED <<activeConversation, searchQuery, appError, mounted, server, nCalls>>
  /\ UNCHANGED chatVars

\* handleSearch: setSearchQuery(query); searchConversations(query), up to the
\* await of searchConversations
HandleSearch(query) ==
  /\ mounted
  /\ nCalls < MaxCalls
  /\ nCalls' = nCalls + 1
  /\ searchQuery' = query
  /\ LET call == [NoCall EXCEPT !.id = nCalls + 1, !.caller = "handleSearch", !.query = query]
     IN  IF IsBlank(query)
         THEN LET list == [call EXCEPT
                             !.kind = "list",
                             !.created = IF did.op = "createSettled" /\ did.error = NoError
                                         THEN did.data[1].id ELSE NullId,
                             !.restores = (did.op \in {"search", "searchSettled"}
                                           \/ \E c \in calls : c.kind = "search")]
              IN  /\ LoadConversations(list)
                  /\ did' = Did("reload", list, NoError, <<>>)
         ELSE /\ conversationsLoading' = TRUE
              /\ calls' = calls \cup {[call EXCEPT !.kind = "search"]}
              /\ did' = Did("search", call, NoError, <<>>)
              /\ UNCHANGED conversationsError
  /\ UNCHANGED <<conversations, activeConversation, appError, mounted, server>>
  /\ UNCHANGED chatVars

\* searchConversations after its await
SearchSettles(r, w) ==
  /\ r \in calls /\ r.kind = "search"
  /\ LET res == ApiSearchConversations(w)
     IN  IF res.ok
         THEN /\ conversations' = LoadedConversations(conversations, res.value.history)
              /\ did' = Did("searchSettled", r, NoError, w.body.history)
              /\ UNCHANGED conversationsError
         ELSE /\ conversationsError' = Caught(conversationsError, res.error)
              /\ did' = Did("searchSettled", r, res.error, <<>>)
              /\ UNCHANGED conversations
  /\ calls' = calls \ {r}
  /\ conversationsLoading' = FALSE
  /\ UNCHANGED <<activeConversation, searchQuery, appError, mounted, server, nCalls>>
  /\ UNCHANGED chatVars

\* ------------------------------------------------------------------ App
\* the program's constant of handleSendMessage: inputMessage.slice(0, 50)
TitleMax == 50
Title(inputMessage) ==
  IF Len(inputMessage) > TitleMax
  THEN SubSeq(inputMessage, 1, TitleMax) \o <<".", ".", ".">>
  ELSE inputMessage
NewConversationTitle ==
  <<"N", "e", "w", " ", "C", "o", "n", "v", "e", "r", "s", "a", "t", "i", "o", "n">>

\* extractContext: text is a sequence of tokens; Fence is the triple backtick,
\* LineBreak the line feed, the tokens of WordTokens are made of word
\* characters only
Fence == "<fence>"
LineBreak == "\n"
WordTokens == {"a", "js", "error", "Error", "NULL", "null"}
Keywords == {"error", "exception", "failed", "undefined", "null", "cannot"}
ToLowerCase_CaseSensitive(token) == token
ToLowerCase(token) ==
  CASE token = "Error" -> "error"
    [] token = "NULL" -> "null"
    [] OTHER -> token
\* (\w+)? after the fence at i: the longest run of word tokens
WordRun(message, i) ==
  CHOOSE k \in 0..Len(message) :
    /\ \A j \in 1..k : i + j <= Len(message) /\ message[i + j] \in WordTokens
    /\ ~(i + k + 1 <= Len(message) /\ message[i + k + 1] \in WordTokens)
\* where the code starts if fence, (\w+)? and \n match at i, else 0
CodeStart(message, i) ==
  LET k == WordRun(message, i)
  IN  IF message[i] = Fence /\ i + k + 1 <= Len(message) /\ message[i + k + 1] = LineBreak
      THEN i + k + 2 ELSE 0
\* ([\s\S]*?) and the closing fence: the first fence at or after from, else 0
CodeEnd(message, from) ==
  LET fences == {j \in from..Len(message) : message[j] = Fence}
  IN  IF fences = {} THEN 0 ELSE CHOOSE j \in fences : \A l \in fences : j <= l
CodeMatches(message) ==
  {i \in 1..Len(message) :
     CodeStart(message, i) # 0 /\ CodeEnd(message, CodeStart(message, i)) # 0}
\* return Object.keys(context).length > 0 ? context : undefined
HasKeys_Always(hasCode, reported) == TRUE
HasKeys(hasCode, reported) == hasCode \/ reported

ExtractContext(message, category) ==
  LET found == CodeMatches(message)
      i == CHOOSE m \in found : \A l \in found : m <= l
      tag == SubSeq(message, i + 1, i + WordRun(message, i))
      errorMatch == \E j \in 1..Len(message) : ToLowerCase(message[j]) \in Keywords
      reported == errorMatch /\ category = "bug-fix"
  IN  [errorMessage |-> IF reported THEN message ELSE <<>>,
       language |-> IF found = {} THEN <<>>
                    ELSE IF tag = <<>> THEN <<"javascript">> ELSE tag,
       codeSnippet |-> IF found = {} THEN <<>>
                       ELSE SubSeq(message, CodeStart(message, i),
                                   CodeEnd(message, CodeStart(message, i)) - 1),
       hasCode |-> found # {},
       present |-> HasKeys(found # {}, reported)]

\* the sendMessage a handler closed over when the render shows the current state
Closure == [isLoading |-> isLoading,
            conversationId |-> IF activeConversation = NullId THEN "" ELSE activeConversation]

\* handleSendMessage up to its first await
HandleSendMessage(inputMessage, selectedCategory) ==
  /\ mounted
  /\ IF IsBlank(inputMessage)
     THEN /\ did' = Did("sendMessageReturn", NoCall, NoError, <<>>)
          /\ UNCHANGED <<calls, nCalls>>
          /\ UNCHANGED chatVars
     ELSE IF activeConversation = NullId
     THEN /\ nCalls < MaxCalls
          /\ nCalls' = nCalls + 1
          /\ LET call == [NoCall EXCEPT !.id = nCalls + 1, !.kind = "create",
                                        !.caller = "handleSendMessage",
                                        !.title = Title(inputMessage),
                                        !.category = selectedCategory,
                                        !.message = inputMessage,
                                        !.closure = Closure]
             IN  /\ calls' = calls \cup {call}
                 /\ did' = Did("create", call, NoError, <<>>)
          /\ UNCHANGED chatVars
     ELSE /\ SendMessageFrom(Closure, inputMessage, selectedCategory,
                             ExtractContext(inputMessage, selectedCategory))
          /\ did' = Did("send", NoCall, NoError, <<>>)
          /\ UNCHANGED <<calls, nCalls>>
  /\ UNCHANGED <<conversations, conversationsLoading, conversationsError,
                 activeConversation, searchQuery, appError, mounted, server>>

\* handleNewConversation up to its await
HandleNewConversation ==
  /\ mounted
  /\ nCalls < MaxCalls
  /\ nCalls' = nCalls + 1
  /\ LET call == [NoCall EXCEPT !.id = nCalls + 1, !.kind = "create",
                                !.caller = "handleNewConversation",
                                !.title = NewConversationTitle,
                                !.category = "general"]
     IN  /\ calls' = calls \cup {call}
         /\ did' = Did("create", call, NoError, <<>>)
  /\ UNCHANGED <<conversations, conversationsLoading, conversationsError,
                 activeConversation, searchQuery, appError, mounted, server>>
  /\ UNCHANGED chatVars

\* catch (err) of the handler that awaited createConversation
CreateFailed_Silent(caller) == Null
CreateFailed(caller) ==
  IF caller = "handleSendMessage" THEN <<"Failed to create conversation">>
  ELSE <<"Failed to create new conversation">>

\* createConversation after its await, and the handler that awaited it
CreateSettles(r, w) ==
  /\ r \in calls /\ r.kind = "create"
  /\ server' = IF Served(w) THEN BackendCreate(server, r) ELSE server
  /\ calls' = calls \ {r}
  /\ LET res == ApiCreateConversation(w)
     IN  IF res.ok
         THEN /\ conversations' = PrependConversation(conversations, res.value.summary)
              /\ activeConversation' = res.value.summary.id
              /\ did' = Did("createSettled", r, NoError, <<w.body.summary>>)
              /\ UNCHANGED <<conversationsError, appError>>
              /\ IF r.caller = "handleSendMessage"
                 THEN SendMessageFrom(r.closure, r.message, r.category,
                                      ExtractContext(r.message, r.category))
                 ELSE ClearMessages
         ELSE /\ conversationsError' = Caught(conversationsError, res.error)
              /\ appError' = CreateFailed(r.caller)
              /\ did' = Did("createSettled", r, res.error, <<>>)
              /\ UNCHANGED <<conversations, activeConversation>>
              /\ UNCHANGED chatVars
  /\ UNCHANGED <<conversationsLoading, searchQuery, mounted, nCalls>>

\* useEffect: if (conversations.length > 0 && !activeConversation)
\* setActiveConversation(conversations[0].id)
AutoSelect ==
  /\ conversations # <<>>
  /\ activeConversation = NullId
  /\ activeConversation' = conversations[1].id
  /\ did' = Did("autoSelect", NoCall, NoError, <<>>)
  /\ UNCHANGED <<conversations, conversationsLoading, conversationsError, searchQuery,
                 appError, mounted, calls, server, nCalls>>
  /\ UNCHANGED chatVars

\* a conversation of the list is clicked: setActiveConversation(conv.id)
SelectConversation(id) ==
  /\ activeConversation # id
  /\ activeConversation' = id
  /\ did' = Did("select", NoCall, NoError, <<>>)
  /\ UNCHANGED <<conversations, conversationsLoading, conversationsError, searchQuery,
                 appError, mounted, calls, server, nCalls>>
  /\ UNCHANGED chatVars

\* handleDeleteConversation(id) up to its await; fallback is what the handler
\* will select: conversations.length > 1 ? conversations[0].id : null
HandleDeleteConversation(id) ==
  /\ mounted
  /\ nCalls < MaxCalls
  /\ nCalls' = nCalls + 1
  /\ LET call == [NoCall EXCEPT !.id = nCalls + 1, !.kind = "delete",
                                !.caller = "handleDeleteConversation",
                                !.convId = id,
                                !.active = activeConversation,
                                !.fallback = IF Len(conversations) > 1
                                             THEN conversations[1].id ELSE NullId]
     IN  /\ calls' = calls \cup {call}
         /\ did' = Did("delete", call, NoError, <<>>)
  /\ UNCHANGED <<conversations, conversationsLoading, conversationsError,
                 activeConversation, searchQuery, appError, mounted, server>>
  /\ UNCHANGED chatVars

\* deleteConversation after its await (it swallows the error), and the rest of
\* handleDeleteConversation
DeleteSettles(r, w) ==
  /\ r \in calls /\ r.kind = "delete"
  /\ server' = IF Served(w) THEN BackendDelete(server, r.convId) ELSE server
  /\ calls' = calls \ {r}
  /\ LET res == ApiDeleteConversation(w)
     IN  IF res.ok
         THEN /\ conversations' = RemoveConversation(conversations, r.convId)
              /\ did' = Did("deleteSettled", r, NoError, <<>>)
              /\ UNCHANGED conversationsError
         ELSE /\ conversationsError' = Caught(conversationsError, res.error)
              /\ did' = Did("deleteSettled", r, res.error, <<>>)
              /\ UNCHANGED conversations
  /\ activeConversation' = IF r.active = r.convId THEN r.fallback ELSE activeConversation
  /\ UNCHANGED <<conversationsLoading, searchQuery, appError, mounted, nCalls>>
  /\ UNCHANGED chatVars

\* the chat session on its own: the registry and the App stay as constructed
Next ==
  \/ \E in \in SendInputs :
       SendMessage(in.content, in.category, in.context) /\ UNCHANGED appVars
  \/ \E r \in inflight, w \in ChatWire : SendSettles(r, w) /\ UNCHANGED appVars
  \/ \E id \in ConvIds : LoadConversation(id) /\ UNCHANGED appVars
  \/ \E r \in inflight, w \in LoadWire : LoadSettles(r, w) /\ UNCHANGED appVars
  \/ ClearMessages /\ UNCHANGED appVars
  \/ \E id \in ConversationProps : Render(id) /\ UNCHANGED appVars

Spec == Init /\ [][Next]_vars

\* the App with its registry: what the user does and what the backend answers
AppNext ==
  \/ Mount
  \/ \E r \in calls, w \in ListWire(server) : ListSettles(r, w)
  \/ \E q \in SearchQueries : HandleSearch(q)
  \/ \E r \in calls : \E w \in SearchWire(server, r.query) : SearchSettles(r, w)
  \/ \E in \in AppInputs : HandleSendMessage(in.content, in.category)
  \/ HandleNewConversation
  \/ \E r \in calls : \E w \in CreateWire(r) : CreateSettles(r, w)
  \/ \E c \in {conversations[i] : i \in 1..Len(conversations)} :
       HandleDeleteConversation(c.id)
  \/ \E r \in calls, w \in DeleteWire : DeleteSettles(r, w)

AppSpec == Init /\ [][AppNext]_vars

\* the list of conversations and the selection in it: conversations are
\* created, selected and deleted
SelectionNext ==
  \/ Mount
  \/ \E r \in calls, w \in ListWire(server) : ListSettles(r, w)
  \/ HandleNewConversation
  \/ \E r \in calls : \E w \in CreateWire(r) : CreateSettles(r, w)
  \/ AutoSelect
  \/ \E c \in {conversations[i] : i \in 1..Len(conversations)} : SelectConversation(c.id)
  \/ \E c \in {conversations[i] : i \in 1..Len(conversations)} :
       HandleDeleteConversation(c.id)
  \/ \E r \in calls, w \in DeleteWire : DeleteSettles(r, w)

SelectionSpec == Init /\ [][SelectionNext]_vars

\* the composer on its own: the list is loaded, a conversation is active, and
\* the user sends, once, what was typed
Categories == {"bug-fix", "learning", "general"}
ExtractAlphabet == {Fence, LineBreak, "js", "Error", "+"}
ExtractTexts == UNION { [1..n -> ExtractAlphabet] : n \in 1..MaxText }

ExtractInit ==
  /\ messages = <<>>
  /\ isLoading = FALSE
  /\ isConnected = TRUE
  /\ abortControllerRef = NoController
  /\ aborted = {}
  /\ rendered = [isLoading |-> FALSE, conversationId |-> "c1"]
  /\ inflight = {}
  /\ now = 0
  /\ nSends = 0
  /\ nLoads = 0
  /\ last = Step("init", NoRequest, NoWire, NoError, <<>>)
  /\ conversations = InitialServer
  /\ conversationsLoading = FALSE
  /\ conversationsError = Null
  /\ activeConversation = "c1"
  /\ searchQuery = <<>>
  /\ appError = Null
  /\ mounted = TRUE
  /\ calls = {}
  /\ server = InitialServer
  /\ nCalls = 0
  /\ did = Did("listSettled", [NoCall EXCEPT !.kind = "list", !.caller = "useEffect"],
               NoError, InitialServer)

ExtractNext ==
  /\ inflight = {}
  /\ \E text \in ExtractTexts, category \in Categories : HandleSendMessage(text, category)

ExtractSpec == ExtractInit /\ [][ExtractNext]_vars

\* ================================================================ claims

\* text that is empty or consists only of whitespace, said without trim
OnlyWhitespace(content) == \A i \in 1..Len(content) : content[i] \in Whitespace

\* the step just taken settled request r
Settled(r) == last'.op \in {"sendSettled", "loadSettled"} /\ last'.id = r.id /\ r \in inflight

\* C1: when a second sendMessage was invoked before the first's request
\* resolved, the first request's result is discarded: settling it changes
\* neither the messages nor the connection flag.
C1_StaleResultDiscarded ==
  [][\A r \in Sends(inflight) :
       (Settled(r) /\ r.superseded)
         => (messages' = messages /\ isConnected' = isConnected)]_vars

\* C2: in every reachable state at most one send request is outstanding
\* (issued to the API client, neither settled nor cancelled).
C2_AtMostOneOutstandingSend == Cardinality(Outstanding(Sends(inflight))) <= 1

\* C3: a sendMessage whose content is empty or only whitespace appends no
\* message, issues no request and leaves the loading flag, the connection flag
\* and the in-flight handle unchanged.
C3_BlankSendIsNoOp ==
  [][\A in \in SendInputs :
       (OnlyWhitespace(in.content) /\ SendMessage(in.content, in.category, in.context))
         => /\ last'.op = "sendReturn"
            /\ UNCHANGED <<messages, inflight, isLoading, isConnected,
                           abortControllerRef, aborted, nSends>>]_vars

C3_Witness ==
  /\ last.op = "sendReturn"
  /\ nSends = 0 /\ nLoads = 0
  /\ messages = <<>> /\ inflight = {} /\ ~isLoading

\* C4: sendMessage with non-empty content while a previous send of the session
\* is still in flight is a no-op: no user message appended, no second request
\* issued, the in-flight request not cancelled.
C4_SendWhileSendingIsNoOp ==
  [][\A in \in SendInputs :
       (Sends(inflight) # {} /\ ~OnlyWhitespace(in.content)
        /\ SendMessage(in.content, in.category, in.context))
         => UNCHANGED <<messages, inflight, aborted>>]_vars

SettleOps == {"sendSettled", "loadSettled"}

\* C5: whenever a send or a loadConversation fails with a classified error,
\* the connection flag afterwards is false if the code is NETWORK_ERROR and
\* true for every other code.
C5_ConnectionFollowsErrorCode ==
  (last.op \in SettleOps /\ last.error.classified)
    => (isConnected <=> last.error.code # "NETWORK_ERROR")

C5_Witness ==
  /\ last.op = "loadSettled"
  /\ last.error.classified
  /\ last.error.code = "RATE_LIMIT"
  /\ isConnected

\* C6: whenever the backend was reachable and answered a send or a load with
\* a non-success status, whatever the error body, the connection flag is true
\* afterwards; a failure sets it to false only when the backend was
\* unreachable or its response could not be decoded.
C6_HttpErrorKeepsConnected ==
  /\ (last.op \in SettleOps /\ last.wire.net = "resp" /\ ~last.wire.ok) => isConnected
  /\ (last.op \in SettleOps /\ last.error.classified /\ ~isConnected)
       => (last.wire.net = "reject" \/ last.wire.body.tag = "invalid")

\* the entry at position i is the optimistic user message of request r
IsUserMessageOf(m, r) ==
  /\ m.sender = "user"
  /\ m.content = r.message
  /\ m.category = r.category
  /\ m.id[1] = "user-"

\* sequence s occurs in sequence t as a contiguous run
Embeds(t, s) == \E i \in 1..(Len(t) - Len(s) + 1) : SubSeq(t, i, i + Len(s) - 1) = s

\* C7: a send with non-empty content started from Idle whose request succeeds,
\* with no other session operation interleaved, extends the sequence by
\* exactly two entries, the user message and then the AI message built from
\* the response, and ends with loading false and connection true; the user
\* message is in the sequence from the moment the request is issued.
C7_SuccessfulSendAppendsUserThenAi ==
  /\ [](\A r \in Sends(inflight) :
          (r.fromIdle /\ ~r.interleaved)
            => /\ Len(messages) = r.startLen + 1
               /\ IsUserMessageOf(messages[Len(messages)], r))
  /\ [][\A r \in Sends(inflight) :
          (Settled(r) /\ last'.error = NoError /\ r.fromIdle /\ ~r.interleaved)
            => /\ Len(messages') = r.startLen + 2
               /\ SubSeq(messages', 1, r.startLen + 1) = messages
               /\ messages'[r.startLen + 2] =
                    [id |-> last'.wire.body.id, content |-> last'.wire.body.content,
                     sender |-> "ai", timestamp |-> last'.wire.body.timestamp[2],
                     category |-> r.category]
               /\ ~isLoading'
               /\ isConnected']_vars

C7_Witness ==
  /\ last.op = "sendSettled"
  /\ last.error = NoError
  /\ nSends = 1 /\ nLoads = 0
  /\ Len(messages) = 2
  /\ messages[1].sender = "user" /\ messages[2].sender = "ai"
  /\ messages[2].content = <<"reply">>

\* C8: a send with non-empty content started from Idle whose request fails
\* with a network-classified error, with no other session operation
\* interleaved, extends the sequence by exactly two entries, the user message
\* and then an AI-authored error message embedding the error's message, and
\* ends with loading false and connection false.
C8_NetworkFailedSendAppendsUserThenError ==
  [][\A r \in Sends(inflight) :
       (Settled(r) /\ last'.error.classified /\ last'.error.code = "NETWORK_ERROR"
        /\ r.fromIdle /\ ~r.interleaved)
         => /\ Len(messages) = r.startLen + 1
            /\ IsUserMessageOf(messages[r.startLen + 1], r)
            /\ Len(messages') = r.startLen + 2
            /\ SubSeq(messages', 1, r.startLen + 1) = messages
            /\ messages'[r.startLen + 2].sender = "ai"
            /\ last'.error.message # <<>>
            /\ Embeds(messages'[r.startLen + 2].content, last'.error.message)
            /\ ~isLoading'
            /\ ~isConnected']_vars

C8_Witness ==
  /\ last.op = "sendSettled"
  /\ last.wire.net = "reject"
  /\ last.error.code = "NETWORK_ERROR"
  /\ nSends = 1 /\ nLoads = 0
  /\ Len(messages) = 2
  /\ messages[1].sender = "user" /\ messages[2].sender = "ai"
  /\ ~isConnected

\* the session state machine: Sending while a send request has not settled,
\* Idle when the loading flag is false and no in-flight handle is held
Sending == Sends(inflight) # {}
Idle == ~isLoading /\ abortControllerRef = NoController

\* a request handed to the transport eventually settles
LiveSpec ==
  /\ Init /\ [][Next]_vars
  /\ WF_vars(\E r \in inflight, w \in ChatWire : SendSettles(r, w) /\ UNCHANGED appVars)
  /\ WF_vars(\E r \in inflight, w \in LoadWire : LoadSettles(r, w) /\ UNCHANGED appVars)

\* C9: every send that issued a request ends, once the request settles by any
\* path, with the loading flag false and the in-flight handle cleared; when
\* requests eventually settle, a session in Sending eventually returns to Idle.
C9_SendAlwaysCleansUp ==
  /\ [](last.op = "sendSettled" => Idle)
  /\ (Sending ~> Idle)

C9_Witness ==
  /\ last.op = "sendSettled"
  /\ last.error = TypeError
  /\ Idle

\* C10: apart from the replacement done by a successful loadConversation and
\* the emptying done by clearMessages, every change to the message sequence
\* appends exactly one entry at the end and leaves the existing entries as
\* they were.
C10_MessagesAppendOnly ==
  [][\/ messages' = messages
     \/ (last'.op = "loadSettled" /\ last'.error = NoError)
     \/ last'.op = "clear"
     \/ /\ Len(messages') = Len(messages) + 1
        /\ SubSeq(messages', 1, Len(messages)) = messages]_vars

C10_Witness ==
  /\ last.op = "sendSettled"
  /\ nSends = 2
  /\ inflight = {}
  /\ Len(messages) = 4
  /\ messages[1].sender = "user" /\ messages[2].sender = "user"

\* message m is the wire message h with its timestamp made a point in time:
\* the parsed wire timestamp, or a reading of the clock when the wire has none
IsFetched(m, h) ==
  /\ m.id = h.id /\ m.content = h.content /\ m.sender = h.sender
  /\ m.category = h.category
  /\ m.timestamp = IF h.timestamp = UndefinedTimestamp THEN now ELSE h.timestamp[2]

\* C11: a loadConversation whose fetch succeeds replaces the whole message
\* sequence with exactly the fetched history and sets the connection flag to
\* true and the loading flag to false.
C11_LoadReplacesMessages ==
  (last.op = "loadSettled" /\ last.error = NoError)
    => /\ Len(messages) = Len(last.wire.body.history)
       /\ \A i \in 1..Len(messages) : IsFetched(messages[i], last.wire.body.history[i])
       /\ isConnected
       /\ ~isLoading

C11_Witness ==
  /\ last.op = "loadSettled"
  /\ last.error = NoError
  /\ nSends = 1 /\ nLoads = 1
  /\ Len(messages) = 2
  /\ messages[1].id = <<"msg-", 7>> /\ messages[2].id = <<"msg-", 8>>

\* C12: a loadConversation whose fetch fails with a classified error leaves
\* the message sequence as it was (neither the call nor the failure touches
\* it), reports the error to onError exactly once and ends with the loading
\* flag false.
C12_FailedLoadKeepsMessages ==
  [][/\ last'.op = "load" => messages' = messages
     /\ \A r \in Loads(inflight) :
          (Settled(r) /\ last'.error.classified)
            => /\ messages' = messages
               /\ last'.onError = <<last'.error>>
               /\ ~isLoading']_vars

C12_Witness ==
  /\ last.op = "loadSettled"
  /\ last.error.classified
  /\ last.onError = <<last.error>>
  /\ nSends = 1 /\ nLoads = 1
  /\ Len(messages) >= 1
  /\ ~isLoading

\* C13: clearMessages empties the message sequence, issues no request and
\* leaves the loading flag, the connection flag and the in-flight handle as
\* they were.
C13_ClearOnlyEmptiesMessages ==
  [][last'.op = "clear"
       => /\ messages' = <<>>
          /\ {r.id : r \in inflight'} = {r.id : r \in inflight}
          /\ UNCHANGED <<isLoading, isConnected, abortControllerRef, aborted,
                         nSends, nLoads>>]_vars

C13_Witness ==
  /\ last.op = "clear"
  /\ messages = <<>>
  /\ isLoading
  /\ Sends(inflight) # {}
  /\ abortControllerRef # NoController

\* ----------------------------------------------- claims on the registry
\* the step that applies the answer to call r of the registry
Applied(r, op) == r \in calls /\ did'.op = op /\ did'.id = r.id

\* C14: a registry load that succeeds replaces the cached list with exactly
\* the fetched list; one that fails leaves the cached list unchanged and sets
\* the error string to the classified error's message; either way the loading
\* flag ends false.
C14_LoadReplacesOrKeepsCache ==
  [][\A r \in calls :
       Applied(r, "listSettled")
         => /\ did'.error = NoError => conversations' = did'.data
            /\ did'.error # NoError
                 => /\ conversations' = conversations
                    /\ did'.error.classified
                    /\ conversationsError' = did'.error.message
            /\ ~conversationsLoading']_vars

C14_Witness ==
  /\ did.op = "listSettled"
  /\ did.error.classified
  /\ conversations # <<>>
  /\ conversationsError = did.error.message
  /\ ~conversationsLoading

\* C15: a registry create that succeeds makes the returned summary the first
\* entry of the cache, followed by every entry the cache held when the
\* response was applied, in the same order.
C15_CreatePrepends ==
  [][\A r \in calls :
       (Applied(r, "createSettled") /\ did'.error = NoError)
         => conversations' = <<did'.data[1]>> \o conversations]_vars

C15_Witness ==
  /\ did.op = "createSettled"
  /\ did.error = NoError
  /\ Len(conversations) >= 2
  /\ conversations[1] = did.data[1]
  /\ conversations[2].id = "c1"

\* C16: creating a conversation and then immediately fetching the list yields
\* a cache whose first entry is the conversation just created.
C16_CreateThenListPutsNewFirst ==
  [][\A r \in calls :
       (/\ r.created # NullId
        /\ did.op = "reload" /\ did.id = r.id
        /\ Applied(r, "listSettled") /\ did'.error = NoError)
         => /\ conversations' # <<>>
            /\ conversations'[1].id = r.created]_vars

\* C17: a registry create that fails sets the error string to the classified
\* error's message, leaves the cache unchanged and re-raises to its caller:
\* handleSendMessage then issues no chat request, handleNewConversation
\* neither changes the active conversation nor clears the messages.
C17_FailedCreateAbortsCaller ==
  [][\A r \in calls :
       (Applied(r, "createSettled") /\ did'.error # NoError)
         => /\ did'.error.classified
            /\ conversationsError' = did'.error.message
            /\ conversations' = conversations
            /\ appError' = IF r.caller = "handleSendMessage"
                           THEN <<"Failed to create conversation">>
                           ELSE <<"Failed to create new conversation">>
            /\ r.caller = "handleSendMessage"
                 => UNCHANGED <<inflight, nSends, messages, isLoading>>
            /\ r.caller = "handleNewConversation"
                 => UNCHANGED <<activeConversation, messages>>]_vars

C17_Witness ==
  /\ did.op = "createSettled"
  /\ did.caller = "handleNewConversation"
  /\ did.error.classified
  /\ conversationsError = did.error.message
  /\ appError = <<"Failed to create new conversation">>
  /\ activeConversation # NullId
  /\ messages # <<>>

\* C18: a registry delete that succeeds removes from the cache every entry
\* whose identity is the deleted one and no other entry, and keeps the
\* remaining entries in their order.
C18_DeleteRemovesById ==
  [][\A r \in calls :
       (Applied(r, "deleteSettled") /\ did'.error = NoError)
         => LET kept == {i \in 1..Len(conversations) : conversations[i].id # r.convId}
            IN  /\ Len(conversations') = Cardinality(kept)
                /\ \A i \in kept :
                     conversations'[Cardinality({j \in kept : j <= i})] = conversations[i]]_vars

C18_Witness ==
  /\ did.op = "deleteSettled"
  /\ did.error = NoError
  /\ conversations # <<>>
  /\ \A i \in 1..Len(conversations) : conversations[i].id # did.convId

\* C19: a registry delete that fails leaves the cache unchanged, the entry is
\* not removed when the call is made either, and sets the error string to the
\* classified error's message.
C19_FailedDeleteKeepsCache ==
  [][/\ did'.op = "delete" => conversations' = conversations
     /\ \A r \in calls :
          (Applied(r, "deleteSettled") /\ did'.error # NoError)
            => /\ conversations' = conversations
               /\ did'.error.classified
               /\ conversationsError' = did'.error.message]_vars

C19_Witness ==
  /\ did.op = "deleteSettled"
  /\ did.error.classified
  /\ conversationsError = did.error.message
  /\ \E i \in 1..Len(conversations) : conversations[i].id = did.convId

\* C20: after a search with a non-empty query is followed by a search with an
\* empty or whitespace query, the cache ends up equal to the full list the
\* list endpoint returned, also when the earlier search is still outstanding
\* when the empty search is made, whichever of the two requests resolves first.
C20_ClearedSearchRestoresFullList ==
  [][/\ \A r \in calls :
          (r.restores /\ Applied(r, "listSettled") /\ did'.error = NoError)
            => conversations' = did'.data
     /\ \A r \in calls :
          (r.reloaded /\ conversations = r.full /\ Applied(r, "searchSettled"))
            => conversations' = r.full]_vars

\* C21: instantiating the registry issues exactly one list request on its
\* own, before any handler acts; no later operation or re-render issues
\* another automatic load.
C21_OneAutomaticLoad ==
  [][/\ (did.op = "init" /\ did' # did) => did'.op = "mount"
     /\ (did'.op = "mount" /\ did' # did)
          => /\ ~mounted
             /\ calls = {}
             /\ Cardinality(calls') = 1
             /\ \A c \in calls' : c.kind = "list" /\ c.caller = "useEffect"
     /\ did'.op # "mount"
          => {c \in calls' : c.caller = "useEffect"} \subseteq calls]_vars

C21_Witness ==
  /\ mounted
  /\ did.op = "searchSettled"
  /\ conversations # <<>>
  /\ \A c \in calls : c.caller # "useEffect"

\* ------------------------------------------- claims on the API client
\* the call settled last was answered with a non-success HTTP status
AnsweredNotOk == last.op \in SettleOps /\ last.wire.net = "resp" /\ ~last.wire.ok

\* C22: a call answered with a non-success HTTP status fails with the
\* backend-supplied message and code if the error body decodes, and with code
\* HTTP_ERROR and a message containing the HTTP status if it does not.
C22_HttpErrorCarriesBackendError ==
  AnsweredNotOk
    => /\ last.error.classified
       /\ last.wire.body.tag = "obj"
            => /\ last.error.message = last.wire.body.message
               /\ last.error.code = last.wire.body.code
       /\ last.wire.body.tag # "obj"
            => /\ last.error.code = "HTTP_ERROR"
               /\ Embeds(last.error.message, <<ToString(last.wire.status)>>)

\* C23: a failure that is not a classified error already (the transport
\* fails, or a success-status body does not parse) is raised as a classified
\* NETWORK_ERROR with the fixed message, and every failure the caller of the
\* API client sees is a classified error.
C23_EveryFailureIsClassified ==
  (last.op \in SettleOps /\ last.error # NoError)
    => /\ last.error.classified
       /\ (last.wire.net = "reject" \/ (last.wire.ok /\ last.wire.body.tag = "invalid"))
            => last.error = NetworkError

\* ------------------------------------------ claims on extractContext
\* the text contains one of the keywords, whatever the case of its letters
MentionsFailure(text) ==
  \E i \in 1..Len(text) :
    text[i] \in {"error", "Error", "exception", "failed", "undefined", "null", "NULL",
                 "cannot"}

\* the text has a fenced code block: a fence, a language tag of word
\* characters or none, a line break, and a closing fence after it
HasFencedBlock(text) ==
  \E i, n, j \in 1..Len(text) :
    /\ i < n /\ n < j
    /\ text[i] = Fence /\ text[n] = LineBreak /\ text[j] = Fence
    /\ \A m \in (i + 1)..(n - 1) : text[m] \in {"a", "js", "error", "Error", "NULL", "null"}

\* C24: extractContext sets the error-message field, to the full text, exactly
\* when the category is bug-fix and the text contains one of the keywords in
\* any case; for learning and general it is never set.
C24_ErrorMessageOnlyForBugFix ==
  \A r \in Sends(inflight) :
    /\ r.context.errorMessage # <<>>
         <=> (r.category = "bug-fix" /\ MentionsFailure(r.message))
    /\ r.context.errorMessage # <<>> => r.context.errorMessage = r.message
    /\ r.category \in {"learning", "general"} => r.context.errorMessage = <<>>

C24_Witness ==
  \E r \in Sends(inflight) :
    /\ r.category = "bug-fix"
    /\ r.message = <<"js", "Error", "+">>
    /\ r.context.errorMessage = r.message
    /\ ~r.context.hasCode

Reselected(r) ==
  \E q \in Loads(inflight) : q.id > r.id /\ q.conversationId # r.conversationId

\* C26: a send reply or a load result that belongs to a previously active
\* conversation and arrives after loadConversation was invoked for another
\* conversation is not applied to the message sequence.
C26_StaleConversationResultNotApplied ==
  [][\A r \in inflight : (Settled(r) /\ Reselected(r)) => messages' = messages]_vars

\* C27: the loading flag is true whenever a send request or a load request of
\* the session is outstanding, also when two requests overlap and one of them
\* settles before the other.
C27_LoadingWhileOutstanding == Outstanding(inflight) # {} => isLoading

\* ------------------------------------------ claims on the App's handlers
\* C28: the chat request issued by handleSendMessage carries the identity of
\* the conversation active for that message; when handleSendMessage first
\* creates the conversation, it is the identity of the one just created.
C28_RequestCarriesActiveConversation ==
  [][\A r \in Sends(inflight') :
       r.id \notin {q.id : q \in inflight} => r.conversationId = activeConversation']_vars

\* C29: after handleDeleteConversation(id) completed for the active
\* conversation and the deletion succeeded, the active conversation is none or
\* one still in the cache, and never the one just deleted.
C29_ActiveAfterDeleteIsPresent ==
  [][\A r \in calls :
       (Applied(r, "deleteSettled") /\ did'.error = NoError /\ r.active = r.convId)
         => /\ activeConversation' # r.convId
            /\ \/ activeConversation' = NullId
               \/ \E i \in 1..Len(conversations') :
                    conversations'[i].id = activeConversation']_vars

\* C30: when the deletion requested by handleDeleteConversation(id) fails,
\* the active conversation is left as it was and the failure is reported.
C30_FailedDeleteKeepsSelection ==
  [][\A r \in calls :
       (Applied(r, "deleteSettled") /\ did'.error # NoError)
         => /\ activeConversation' = activeConversation
            /\ conversationsError' = did'.error.message]_vars

\* ------------------------------------------ claims on message identities
\* a message built by sendMessage itself: its id is user-<Date.now()> or
\* error-<Date.now()>
LocallyGenerated(m) == m.id[1] \in {"user-", "error-"}

\* C31: in every reachable state the identities of the messages of the
\* session are pairwise distinct; stated here for the locally generated user
\* and error messages, whose identities are built from the clock reading, also
\* when two sends start or fail within the same clock millisecond.
C31_LocalMessageIdsDistinct ==
  \A i \in 1..Len(messages), j \in 1..Len(messages) :
    (i < j /\ LocallyGenerated(messages[i]) /\ LocallyGenerated(messages[j]))
      => messages[i].id # messages[j].id

====
